---------------------------- MODULE Spec2Model ----------------------------
(***************************************************************************)
(* The unliteration subsystem of cl (src/cl.go): Project.Unlit, the        *)
(* staleness check and the line transform of unlitHelper, together with    *)
(* the commands of the tool that touch the same files (Add, Remove, the    *)
(* Chtimes of ShowTypes) and the author's edits of the literate sources.   *)
(*                                                                         *)
(* A text is a sequence of one-character strings, a file's data is the     *)
(* sequence of its lines (the line terminators are what bufio.ScanLines    *)
(* splits on and what Fprintln writes, so they are not part of a line).    *)
(* Time is a natural number; the zero value of time.Time is ZeroTime and   *)
(* every file's modification time is later than it.                        *)
(***************************************************************************)
EXTENDS Integers, Sequences, FiniteSets, TLC

\* ------------------------------------------------------------ bounds ----

\* The clock runs from 1 to MaxTime.
MaxTime == 3
\* Project.Modules and Project.OtherModules hold at most MaxList names each.
MaxList == 1
\* A literate document of SpecT has at most MaxLines lines.
MaxLines == 2

\* --------------------------------------------------------- constants ----

headerPrefix == <<">", ">", " ", "m", "o", "d", "u", "l", "e", " ">>
exportedPrefix == <<">", ">", " ">>
internalPrefix == <<">", " ", " ">>

\* The two words unlitHelper (and Add) put before a module header.
implementationWord == <<"i", "m", "p", "l", "e", "m", "e", "n", "t", "a", "t", "i", "o", "n">>
definitionWord == <<"d", "e", "f", "i", "n", "i", "t", "i", "o", "n">>

\* The zero value of time.Time, which itime and dtime keep when Stat fails.
ZeroTime == 0

\* DefaultManifest.Executable.Main
DefaultMain == "Main"

\* The module names a project file may list.
ModNames == {"Main", "A"}

\* ----------------------------------------------------------- strings ----

\* strings.HasPrefix
HasPrefix(s, prefix) ==
    /\ Len(s) >= Len(prefix)
    /\ SubSeq(s, 1, Len(prefix)) = prefix

\* strings.TrimPrefix
TrimPrefix(s, prefix) ==
    IF HasPrefix(s, prefix) THEN SubSeq(s, Len(prefix) + 1, Len(s)) ELSE s

\* fmt.Fprintln's text for its operands: a space between every two operands;
\* the newline it appends ends the line.
RECURSIVE Sprintln(_)
Sprintln(operands) ==
    IF operands = <<>> THEN <<>>
    ELSE IF Len(operands) = 1 THEN Head(operands)
    ELSE Head(operands) \o <<" ">> \o Sprintln(Tail(operands))

\* ------------------------------------------------ the line transform ----

\* Classify with the exported prefix tested before the header prefix.
ClassifyExportedFirst(line) ==
    IF HasPrefix(line, exportedPrefix) THEN "exported"
    ELSE IF HasPrefix(line, headerPrefix) THEN "header"
    ELSE IF HasPrefix(line, internalPrefix) THEN "internal"
    ELSE "plain"

\* The branch of unlitHelper's loop body a line takes.
Classify(line) ==
    IF HasPrefix(line, headerPrefix) THEN "header"
    ELSE IF HasPrefix(line, exportedPrefix) THEN "exported"
    ELSE IF HasPrefix(line, internalPrefix) THEN "internal"
    ELSE "plain"

\* What the loop body writes to iwriter for one line.
ImplementationLine(line) ==
    CASE Classify(line) = "header" ->
           Sprintln(<<implementationWord, TrimPrefix(line, exportedPrefix)>>)
      [] Classify(line) = "exported" -> Sprintln(<<TrimPrefix(line, exportedPrefix)>>)
      [] Classify(line) = "internal" -> Sprintln(<<TrimPrefix(line, internalPrefix)>>)
      [] OTHER -> Sprintln(<<>>)

\* What the loop body writes to dwriter for one line.
DefinitionLine(line) ==
    CASE Classify(line) = "header" ->
           Sprintln(<<definitionWord, TrimPrefix(line, exportedPrefix)>>)
      [] Classify(line) = "exported" -> Sprintln(<<TrimPrefix(line, exportedPrefix)>>)
      [] Classify(line) = "internal" -> Sprintln(<<>>)
      [] OTHER -> Sprintln(<<>>)

\* ------------------------------------------------- the staleness check ----

\* time.Time.Before
Before(t, u) == t < u

\* StatTime with a missing output left out of the comparison: no time is
\* later than the one it gets.
StatTimeMissingLatest(file) == IF file.exists THEN file.mtime ELSE MaxTime + 1

\* The modification time unlitHelper holds for an output: the zero time when
\* os.Stat fails.
StatTime(file) == IF file.exists THEN file.mtime ELSE ZeroTime

\* NeedsRegeneration with a source as old as an output taken for up to date.
NeedsRegenerationNotAfter(mtime, itime, dtime) ==
    ~(mtime <= itime /\ mtime <= dtime)

\* NeedsRegeneration with the receiver and the argument of Before exchanged.
NeedsRegenerationSwapped(mtime, itime, dtime) ==
    ~(Before(itime, mtime) /\ Before(dtime, mtime))

\* The negation of the early return at "Everything up-to-date".
NeedsRegeneration(mtime, itime, dtime) ==
    ~(Before(mtime, itime) /\ Before(mtime, dtime))


\* ------------------------------------------------------------- state ----

VARIABLES
    now,        \* the clock the file system stamps modification times with
    lcl,        \* the literate source of each module: path + ".lcl"
    icl,        \* the implementation output of each module: path + ".icl"
    dcl,        \* the definition output of each module: path + ".dcl"
    manifest,   \* prj.Manifest, as NewProject read it for this run
    loop,       \* the statement of Unlit that made the current call
    idx,        \* the index of that statement's range loop
    pc,         \* the position of the process
    mod,        \* unlitHelper's parameter
    lfile,      \* unlitHelper's handles: TRUE while open
    ifile,
    dfile,
    scanned,    \* the lines scanner.Scan has returned
    scanErr,    \* scanner.Err() is not nil
    iwriter,    \* the lines buffered in iwriter
    dwriter,    \* the lines buffered in dwriter
    result,     \* the way the last call of unlitHelper returned
    trace,      \* history: the modules unlitHelper was called with in this run
    hist,       \* history: what happened to a module's outputs since its source changed
    prev        \* history: the outputs of the last regeneration from the current source

files == <<lcl, icl, dcl>>
frame == <<mod, lfile, ifile, dfile, scanned, scanErr, iwriter, dwriter, result>>
driver == <<manifest, loop, idx, trace>>
vars == <<now, lcl, icl, dcl, manifest, loop, idx, pc, mod, lfile, ifile, dfile,
          scanned, scanErr, iwriter, dwriter, result, trace, hist, prev>>

\* A path that does not exist.
NoFile == [exists |-> FALSE, mtime |-> ZeroTime, data |-> <<>>]

\* A file as os.Create leaves it: truncated, stamped with the current time.
Created(t) == [exists |-> TRUE, mtime |-> t, data |-> <<>>]

\* A file after a write of `lines` at its end.
Written(file, lines, t) ==
    [exists |-> TRUE, mtime |-> t, data |-> file.data \o lines]

NoPrev == [has |-> FALSE, i |-> <<>>, d |-> <<>>]

EmptyManifest == [Main |-> DefaultMain, Modules |-> <<>>, OtherModules |-> <<>>]

\* unlitHelper's locals before a call.
FrameReset(m) ==
    /\ mod' = m
    /\ lfile' = FALSE
    /\ ifile' = FALSE
    /\ dfile' = FALSE
    /\ scanned' = 0
    /\ scanErr' = FALSE
    /\ iwriter' = <<>>
    /\ dwriter' = <<>>
    /\ result' = "none"

\* The sequences over S of length at most n.
SeqsUpTo(S, n) == UNION {[1..k -> S] : k \in 0..n}

\* The text of a module name.
ModText(m) == IF m = "Main" THEN <<"M", "a", "i", "n">> ELSE <<"A">>

\* ---------------------------------------------------- Project.Unlit ----

\* log.Fatalf in expect: the process exits with status 1 where it stands;
\* no deferred call runs.
Fatalf ==
    /\ pc' = "fatal"

\* main, "unlit" (and Build, ShowTypes, LegacyBuild): NewProject reads the
\* project file and Unlit makes its first call, unlitHelper(Sourcedir, Main).
Unlit(main, modules, others) ==
    /\ pc = "idle"
    /\ manifest' = [Main |-> main, Modules |-> modules, OtherModules |-> others]
    /\ loop' = "main"
    /\ idx' = 0
    /\ trace' = <<main>>
    /\ FrameReset(main)
    /\ pc' = "stat"
    /\ UNCHANGED <<now, files, hist, prev>>

\* NextCall with the loop over OtherModules before the loop over Modules.
NextCallOthersFirst(m, l, k) ==
    IF l = "main" THEN
        IF Len(m.OtherModules) > 0 THEN <<"OtherModules", 1>>
        ELSE IF Len(m.Modules) > 0 THEN <<"Modules", 1>>
        ELSE <<"end", 0>>
    ELSE IF l = "OtherModules" THEN
        IF k < Len(m.OtherModules) THEN <<"OtherModules", k + 1>>
        ELSE IF Len(m.Modules) > 0 THEN <<"Modules", 1>>
        ELSE <<"end", 0>>
    ELSE
        IF k < Len(m.Modules) THEN <<"Modules", k + 1>>
        ELSE <<"end", 0>>

\* The call Unlit makes after the one at (loop, idx) returns: the statement
\* and index of the next call, or "end" when Unlit returns.
NextCall(m, l, k) ==
    IF l = "main" THEN
        IF Len(m.Modules) > 0 THEN <<"Modules", 1>>
        ELSE IF Len(m.OtherModules) > 0 THEN <<"OtherModules", 1>>
        ELSE <<"end", 0>>
    ELSE IF l = "Modules" THEN
        IF k < Len(m.Modules) THEN <<"Modules", k + 1>>
        ELSE IF Len(m.OtherModules) > 0 THEN <<"OtherModules", 1>>
        ELSE <<"end", 0>>
    ELSE
        IF k < Len(m.OtherModules) THEN <<"OtherModules", k + 1>>
        ELSE <<"end", 0>>

\* The argument of the call at (loop, idx).
Argument(m, l, k) ==
    IF l = "main" THEN m.Main
    ELSE IF l = "Modules" THEN m.Modules[k]
    ELSE m.OtherModules[k]

\* unlitHelper has returned: Unlit makes its next call, or returns and the
\* process ends.
Continue ==
    /\ pc = "done"
    /\ LET next == NextCall(manifest, loop, idx) IN
         IF next[1] = "end" THEN
            /\ pc' = "idle"
            /\ manifest' = EmptyManifest
            /\ loop' = "none"
            /\ idx' = 0
            /\ trace' = <<>>
            /\ FrameReset("")
         ELSE
            /\ pc' = "stat"
            /\ loop' = next[1]
            /\ idx' = next[2]
            /\ trace' = Append(trace, Argument(manifest, next[1], next[2]))
            /\ FrameReset(Argument(manifest, next[1], next[2]))
            /\ UNCHANGED manifest
    /\ UNCHANGED <<now, files, hist, prev>>

\* The process has exited in log.Fatalf; the shell has the prompt again.
Exit ==
    /\ pc = "fatal"
    /\ pc' = "idle"
    /\ manifest' = EmptyManifest
    /\ loop' = "none"
    /\ idx' = 0
    /\ trace' = <<>>
    /\ FrameReset("")
    /\ UNCHANGED <<now, files, hist, prev>>

\* ------------------------------------------------------ unlitHelper ----

\* A module's outputs are no longer the ones its last regeneration left.
Touched(h) == IF h = "none" THEN "none" ELSE "touched"

\* StatFiles with a failed os.Stat of the literate source handed to expect.
StatFilesSourceExpected ==
    /\ pc = "stat"
    /\ IF ~lcl[mod].exists THEN
          /\ result' = "none"
          /\ Fatalf
       ELSE IF ~NeedsRegeneration(lcl[mod].mtime, StatTime(icl[mod]), StatTime(dcl[mod])) THEN
          /\ result' = "uptodate"
          /\ pc' = "done"
       ELSE
          /\ result' = "none"
          /\ pc' = "open"
    /\ UNCHANGED <<now, files, driver, mod, lfile, ifile, dfile, scanned, scanErr,
                   iwriter, dwriter, hist, prev>>

\* os.Stat of the three paths and the two early returns.
StatFiles ==
    /\ pc = "stat"
    /\ IF ~lcl[mod].exists THEN
          /\ result' = "nolit"
          /\ pc' = "done"
       ELSE IF ~NeedsRegeneration(lcl[mod].mtime, StatTime(icl[mod]), StatTime(dcl[mod])) THEN
          /\ result' = "uptodate"
          /\ pc' = "done"
       ELSE
          /\ result' = "none"
          /\ pc' = "open"
    /\ UNCHANGED <<now, files, driver, mod, lfile, ifile, dfile, scanned, scanErr,
                   iwriter, dwriter, hist, prev>>

\* lfile, err := os.Open(lpath); expect(err, ...)
OpenSource ==
    /\ pc = "open"
    /\ \E ok \in BOOLEAN :
         IF ok THEN
            /\ lfile' = TRUE
            /\ pc' = "create_i"
         ELSE
            /\ Fatalf
            /\ UNCHANGED lfile
    /\ UNCHANGED <<now, files, driver, mod, ifile, dfile, scanned, scanErr,
                   iwriter, dwriter, result, hist, prev>>

\* ifile, err := os.Create(ipath); expect(err, ...)
CreateImplementation ==
    /\ pc = "create_i"
    /\ \E ok \in BOOLEAN :
         IF ok THEN
            /\ icl' = [icl EXCEPT ![mod] = Created(now)]
            /\ hist' = [hist EXCEPT ![mod] = Touched(@)]
            /\ ifile' = TRUE
            /\ pc' = "create_d"
         ELSE
            /\ Fatalf
            /\ UNCHANGED <<icl, hist, ifile>>
    /\ UNCHANGED <<now, lcl, dcl, driver, mod, lfile, dfile, scanned, scanErr,
                   iwriter, dwriter, result, prev>>

\* dfile, err := os.Create(dpath); expect(err, ...); then the scanner and the
\* two writers are made.
CreateDefinition ==
    /\ pc = "create_d"
    /\ \E ok \in BOOLEAN :
         IF ok THEN
            /\ dcl' = [dcl EXCEPT ![mod] = Created(now)]
            /\ dfile' = TRUE
            /\ pc' = "scan"
         ELSE
            /\ Fatalf
            /\ UNCHANGED <<dcl, dfile>>
    /\ scanned' = 0
    /\ iwriter' = <<>>
    /\ dwriter' = <<>>
    /\ UNCHANGED <<now, lcl, icl, driver, mod, lfile, ifile, scanErr, result, hist, prev>>

\* One turn of the loop: scanner.Scan() returns true and the body writes one
\* line to each writer.  The lines stay in the writers until Flush: a writer
\* whose buffer fills writes them earlier, and the files unlitHelper leaves
\* at its return hold the same lines.
ScanLine ==
    /\ pc = "scan"
    /\ scanned < Len(lcl[mod].data)
    /\ LET line == lcl[mod].data[scanned + 1] IN
         /\ iwriter' = Append(iwriter, ImplementationLine(line))
         /\ dwriter' = Append(dwriter, DefinitionLine(line))
    /\ scanned' = scanned + 1
    /\ UNCHANGED <<now, files, driver, pc, mod, lfile, ifile, dfile, scanErr, result,
                   hist, prev>>

\* bufio.Writer.Flush: the buffered lines are written to the file; an empty
\* buffer writes nothing.
Flush(file, buffered, t) ==
    IF buffered = <<>> THEN file ELSE Written(file, buffered, t)

\* The deferred calls of a return after the writers were made, last first:
\* dwriter.Flush, iwriter.Flush, dfile.Close, ifile.Close, lfile.Close.
Deferred ==
    /\ dcl' = [dcl EXCEPT ![mod] = Flush(@, dwriter, now)]
    /\ icl' = [icl EXCEPT ![mod] = Flush(@, iwriter, now)]
    /\ dwriter' = <<>>
    /\ iwriter' = <<>>
    /\ dfile' = FALSE
    /\ ifile' = FALSE
    /\ lfile' = FALSE

\* scanner.Scan() returns false, at the end of the source (failed = FALSE) or
\* at an error (a failed read, a line longer than bufio.MaxScanTokenSize), which
\* scanner.Err() would tell and the code does not ask: the loop ends, the
\* function returns and its deferred calls run.
ScanStops(failed) ==
    /\ pc = "scan"
    /\ ~failed => scanned = Len(lcl[mod].data)
    /\ scanErr' = failed
    /\ Deferred
    /\ result' = "regen"
    /\ pc' = "done"
    /\ hist' = [hist EXCEPT ![mod] =
                   IF lcl[mod].mtime < icl'[mod].mtime /\ lcl[mod].mtime < dcl'[mod].mtime
                   THEN "late" ELSE "same"]
    /\ prev' = [prev EXCEPT ![mod] = [has |-> TRUE, i |-> icl'[mod].data, d |-> dcl'[mod].data]]
    /\ UNCHANGED <<now, lcl, driver, mod, scanned>>

\* ------------------------------------------- the other commands, the author ----

\* What Add writes: the module header and an empty line.
AddedText(word, m) == <<word \o <<" ", "m", "o", "d", "u", "l", "e", " ">> \o ModText(m), <<>>>>

\* Time passes, between two commands and between two steps of one.
Tick ==
    /\ now < MaxTime
    /\ now' = now + 1
    /\ UNCHANGED <<files, driver, pc, frame, hist, prev>>

\* The author saves the literate source of a module.
EditSource(m, doc) ==
    /\ pc = "idle"
    /\ lcl' = [lcl EXCEPT ![m] = [exists |-> TRUE, mtime |-> now, data |-> doc]]
    /\ hist' = [hist EXCEPT ![m] = "none"]
    /\ prev' = [prev EXCEPT ![m] = NoPrev]
    /\ UNCHANGED <<now, icl, dcl, driver, pc, frame>>

\* Project.Add, one module: both outputs are created and get their header.
Add(m) ==
    /\ pc = "idle"
    /\ dcl' = [dcl EXCEPT ![m] = Written(Created(now), AddedText(definitionWord, m), now)]
    /\ icl' = [icl EXCEPT ![m] = Written(Created(now), AddedText(implementationWord, m), now)]
    /\ hist' = [hist EXCEPT ![m] = Touched(@)]
    /\ UNCHANGED <<now, lcl, driver, pc, frame, prev>>

\* Project.Remove, one module: os.Remove of each output, its error dropped;
\* iok and dok tell whether the call removes the file.
Remove(m, iok, dok) ==
    /\ pc = "idle"
    /\ dcl' = [dcl EXCEPT ![m] = IF dok THEN NoFile ELSE @]
    /\ icl' = [icl EXCEPT ![m] = IF iok THEN NoFile ELSE @]
    /\ hist' = [hist EXCEPT ![m] = Touched(@)]
    /\ UNCHANGED <<now, lcl, driver, pc, frame, prev>>

\* os.Chtimes(path, now, now), as ShowTypes calls it on an implementation
\* output; touch, an editor or the compiler do the same to either output.
Chtimes(m, ext) ==
    /\ pc = "idle"
    /\ IF ext = "icl" THEN
          /\ icl[m].exists
          /\ icl' = [icl EXCEPT ![m].mtime = now]
          /\ UNCHANGED dcl
       ELSE
          /\ dcl[m].exists
          /\ dcl' = [dcl EXCEPT ![m].mtime = now]
          /\ UNCHANGED icl
    /\ hist' = [hist EXCEPT ![m] = Touched(@)]
    /\ UNCHANGED <<now, lcl, driver, pc, frame, prev>>

\* ---------------------------------------------------- specifications ----

\* The literate documents the author saves in Spec.
InternalLine == internalPrefix \o <<"x">>
ExportedLine == exportedPrefix \o <<"x">>
SourceDocs == {<<>>, <<ExportedLine, InternalLine>>}

Program(mains, lists) ==
    \/ \E main \in mains, modules \in lists, others \in lists : Unlit(main, modules, others)
    \/ StatFiles
    \/ OpenSource
    \/ CreateImplementation
    \/ CreateDefinition
    \/ ScanLine
    \/ \E failed \in BOOLEAN : ScanStops(failed)
    \/ Continue
    \/ Exit

Environment(mods) ==
    \/ Tick
    \/ \E m \in mods, doc \in SourceDocs : EditSource(m, doc)
    \/ \E m \in mods : Add(m)
    \/ \E m \in mods, iok \in BOOLEAN, dok \in BOOLEAN : Remove(m, iok, dok)
    \/ \E m \in mods, ext \in {"icl", "dcl"} : Chtimes(m, ext)

Idle ==
    /\ pc = "idle"
    /\ manifest = EmptyManifest
    /\ loop = "none"
    /\ idx = 0
    /\ trace = <<>>
    /\ mod = ""
    /\ lfile = FALSE
    /\ ifile = FALSE
    /\ dfile = FALSE
    /\ scanned = 0
    /\ scanErr = FALSE
    /\ iwriter = <<>>
    /\ dwriter = <<>>
    /\ result = "none"
    /\ hist = [m \in ModNames |-> "none"]
    /\ prev = [m \in ModNames |-> NoPrev]

\* A project directory with no module file in it, at the shell prompt.
Init ==
    /\ Idle
    /\ now = 1
    /\ lcl = [m \in ModNames |-> NoFile]
    /\ icl = [m \in ModNames |-> NoFile]
    /\ dcl = [m \in ModNames |-> NoFile]

Next ==
    \/ Program({DefaultMain}, SeqsUpTo({DefaultMain}, MaxList))
    \/ Environment({DefaultMain})

\* One literate module, listed up to 1 + 2 * MaxList times in the project
\* file, and everything that happens to its three files between two runs.
Spec == Init /\ [][Next]_vars

\* unlitHelper's transform of a whole document, for the files a regeneration
\* has left.
ImplementationOf(doc) == [n \in 1..Len(doc) |-> ImplementationLine(doc[n])]
DefinitionOf(doc) == [n \in 1..Len(doc) |-> DefinitionLine(doc[n])]

\* The files of a module when a run starts at time 2: no file; the outputs
\* Add made; a source never unliterated; a source saved after Add made the
\* outputs; a source with the outputs a later regeneration left.
Profiles == {"none", "added", "new", "stale", "fresh"}
SourceDoc == <<ExportedLine, InternalLine>>

ProfileLcl(p) ==
    IF p \in {"none", "added"} THEN NoFile
    ELSE [exists |-> TRUE, mtime |-> IF p = "stale" THEN 2 ELSE 1, data |-> SourceDoc]

ProfileIcl(p, m) ==
    IF p \in {"none", "new"} THEN NoFile
    ELSE IF p = "fresh" THEN Written(Created(2), ImplementationOf(SourceDoc), 2)
    ELSE Written(Created(1), AddedText(implementationWord, m), 1)

ProfileDcl(p, m) ==
    IF p \in {"none", "new"} THEN NoFile
    ELSE IF p = "fresh" THEN Written(Created(2), DefinitionOf(SourceDoc), 2)
    ELSE Written(Created(1), AddedText(definitionWord, m), 1)

InitB ==
    /\ pc = "idle"
    /\ manifest = EmptyManifest
    /\ loop = "none"
    /\ idx = 0
    /\ trace = <<>>
    /\ mod = ""
    /\ lfile = FALSE
    /\ ifile = FALSE
    /\ dfile = FALSE
    /\ scanned = 0
    /\ scanErr = FALSE
    /\ iwriter = <<>>
    /\ dwriter = <<>>
    /\ result = "none"
    /\ now = 2
    /\ \E profile \in [ModNames -> Profiles] :
         /\ lcl = [m \in ModNames |-> ProfileLcl(profile[m])]
         /\ icl = [m \in ModNames |-> ProfileIcl(profile[m], m)]
         /\ dcl = [m \in ModNames |-> ProfileDcl(profile[m], m)]
         /\ hist = [m \in ModNames |-> IF profile[m] = "fresh" THEN "late" ELSE "none"]
         /\ prev = [m \in ModNames |->
                      IF profile[m] = "fresh"
                      THEN [has |-> TRUE, i |-> ImplementationOf(SourceDoc),
                            d |-> DefinitionOf(SourceDoc)]
                      ELSE NoPrev]

NextB == Program(ModNames, SeqsUpTo(ModNames, MaxList))

\* The batch driver: runs of Unlit over the modules of ModNames, one after
\* another, from every combination of the modules' files.
SpecB == InitB /\ [][NextB]_vars

\* The lines of the documents of SpecT: every prefix of the header prefix, the
\* internal prefix and its near misses, each followed by nothing or by "x".
PrefixesOf(s) == {SubSeq(s, 1, k) : k \in 0..Len(s)}
Heads ==
    PrefixesOf(headerPrefix) \cup PrefixesOf(internalPrefix)
        \cup {<<" ">> \o exportedPrefix, <<">", ">", ">", " ">>, <<"/", "/">>}
Tails == {<<>>, <<"x">>}
Lines == {h \o t : h \in Heads, t \in Tails}
LineDocs == SeqsUpTo(Lines, MaxLines)

InitT ==
    /\ Idle
    /\ now = 1
    /\ \E doc \in LineDocs, added \in BOOLEAN :
         /\ lcl = [m \in ModNames |->
                     IF m = DefaultMain
                     THEN [exists |-> TRUE, mtime |-> 1, data |-> doc] ELSE NoFile]
         /\ icl = [m \in ModNames |->
                     IF m = DefaultMain /\ added
                     THEN Written(Created(1), AddedText(implementationWord, m), 1)
                     ELSE NoFile]
         /\ dcl = [m \in ModNames |->
                     IF m = DefaultMain /\ added
                     THEN Written(Created(1), AddedText(definitionWord, m), 1)
                     ELSE NoFile]

NextT == Program({DefaultMain}, {<<>>})

\* The transform: runs of Unlit on one module whose literate source is any
\* document of LineDocs, the outputs absent or as Add made them.
SpecT == InitT /\ [][NextT]_vars

\* ------------------------------------------------------------ claims ----

\* unlitHelper has returned from a regeneration of `mod`.
Regenerated == pc = "done" /\ result = "regen"

\* C1: after a completed run of the transform on a source of N lines, the
\* definition output and the implementation output have exactly N lines each.
C1_LineCount ==
    Regenerated =>
        /\ Len(dcl[mod].data) = Len(lcl[mod].data)
        /\ Len(icl[mod].data) = Len(lcl[mod].data)

\* The texts the claim C2 names.
DefinitionModule ==
    <<"d", "e", "f", "i", "n", "i", "t", "i", "o", "n", " ", "m", "o", "d", "u", "l", "e", " ">>
ImplementationModule ==
    <<"i", "m", "p", "l", "e", "m", "e", "n", "t", "a", "t", "i", "o", "n", " ",
      "m", "o", "d", "u", "l", "e", " ">>
HeaderMarker == <<">", ">", " ", "m", "o", "d", "u", "l", "e", " ">>
ExportedMarker == <<">", ">", " ">>
InternalMarker == <<">", " ", " ">>

\* line is marker followed by rest.
Splits(line, marker, rest) == line = marker \o rest
Suffixes(line) == {SubSeq(line, k, Len(line)) : k \in 1..(Len(line) + 1)}

\* The pair <<definition line, implementation line>> the claim C2 gives a line.
ClaimedLines(line) ==
    IF \E X \in Suffixes(line) : Splits(line, HeaderMarker, X)
    THEN LET X == CHOOSE X \in Suffixes(line) : Splits(line, HeaderMarker, X)
         IN <<DefinitionModule \o X, ImplementationModule \o X>>
    ELSE IF \E c \in Suffixes(line) : Splits(line, ExportedMarker, c)
    THEN LET c == CHOOSE c \in Suffixes(line) : Splits(line, ExportedMarker, c)
         IN <<c, c>>
    ELSE IF \E c \in Suffixes(line) : Splits(line, InternalMarker, c)
    THEN LET c == CHOOSE c \in Suffixes(line) : Splits(line, InternalMarker, c)
         IN <<<<>>, c>>
    ELSE <<<<>>, <<>>>>

\* C2: every line the scan has read is written as its class says, the class
\* being the first matching prefix in the order header, exported, internal,
\* plain: the n-th line of each output is the claimed line of the n-th source
\* line.
C2_LinesAsClassified ==
    /\ pc = "scan" =>
         /\ Len(dwriter) = scanned
         /\ Len(iwriter) = scanned
         /\ \A n \in 1..scanned :
              <<dwriter[n], iwriter[n]>> = ClaimedLines(lcl[mod].data[n])
    /\ Regenerated =>
         /\ Len(dcl[mod].data) = scanned
         /\ Len(icl[mod].data) = scanned
         /\ \A n \in 1..scanned :
              <<dcl[mod].data[n], icl[mod].data[n]>> = ClaimedLines(lcl[mod].data[n])

\* A header line and an internal line have been written to both outputs.
C2_Witness ==
    /\ Regenerated
    /\ ~scanErr
    /\ lcl[mod].data = <<headerPrefix \o <<"x">>, internalPrefix \o <<"x">>>>
    /\ dcl[mod].data = <<DefinitionModule \o <<"x">>, <<>>>>
    /\ icl[mod].data = <<ImplementationModule \o <<"x">>, <<"x">>>>

\* The claim C3's rule for a module whose source exists: regenerate unless
\* both outputs exist and the source's time is strictly earlier than both.
ClaimedStale(m) ==
    \/ ~icl[m].exists
    \/ ~dcl[m].exists
    \/ lcl[m].mtime >= icl[m].mtime
    \/ lcl[m].mtime >= dcl[m].mtime

\* C3: for a module whose literate source exists, unlitHelper goes on to
\* regenerate exactly when an output is missing or the source's modification
\* time is not strictly earlier than both outputs' times, and returns "up to
\* date" otherwise; it never takes the source for missing.
C3_Staleness ==
    /\ (pc = "open" => lcl[mod].exists /\ ClaimedStale(mod))
    /\ (pc = "done" /\ result = "uptodate" => lcl[mod].exists /\ ~ClaimedStale(mod))
    /\ (pc = "done" /\ result = "nolit" => ~lcl[mod].exists)

\* The claim's example: source at 2, definition at 1, implementation at 3,
\* and unlitHelper has decided to regenerate.
C3_Witness ==
    /\ pc = "open"
    /\ lcl[mod].mtime = 2
    /\ dcl[mod].exists /\ dcl[mod].mtime = 1
    /\ icl[mod].exists /\ icl[mod].mtime = 3

\* C7: a read failure during the scan is fatal: when scanner.Err() is set
\* the process has exited in Fatalf, it has not returned from unlitHelper.
C7_ReadFailureFatal == scanErr => pc = "fatal"

\* C8: when an output cannot be created the process stops, and it does not
\* stop with the implementation output created (truncated) and the definition
\* output not.
C8_OutputsConsistent == pc = "fatal" => (ifile = dfile)

\* C6: a regeneration from a source that was regenerated from before, the
\* source unchanged since, leaves both outputs with the data the earlier
\* regeneration left.
C6_Idempotent ==
    [][(pc = "scan" /\ pc' = "done" /\ prev[mod].has) =>
          (icl'[mod].data = prev[mod].i /\ dcl'[mod].data = prev[mod].d)]_vars

\* The staleness check's answer for a module whose source exists.
Regenerate(m) ==
    NeedsRegeneration(lcl[m].mtime, StatTime(icl[m]), StatTime(dcl[m]))

\* The modification time of an output is past the source's.
Past(out, m) == out.exists /\ out.mtime > lcl[m].mtime

\* A step holds the source fixed and raises an output's time past it.
RaisesOutput(m) ==
    /\ lcl[m].exists
    /\ lcl'[m] = lcl[m]
    /\ \/ ~Past(icl[m], m) /\ Past(icl'[m], m)
       \/ ~Past(dcl[m], m) /\ Past(dcl'[m], m)

\* A step holds the source fixed and deletes an output.
DeletesOutput(m) ==
    /\ lcl[m].exists
    /\ lcl'[m] = lcl[m]
    /\ \/ icl[m].exists /\ ~icl'[m].exists
       \/ dcl[m].exists /\ ~dcl'[m].exists

\* C4 as claimed: with the source's time fixed, a step that raises either
\* output's time past the source's turns "regenerate" into "skip", and a step
\* that deletes an output turns it back to "regenerate".
C4_EitherOutputFlips ==
    [][\A m \in ModNames :
         /\ (Regenerate(m) /\ RaisesOutput(m)) => ~Regenerate(m)'
         /\ DeletesOutput(m) => Regenerate(m)']_vars

\* C4 as amended: a step that raises an output's time past the source's
\* turns "regenerate" into "skip" exactly when the other output's time is then
\* past the source's too, and leaves "regenerate" otherwise; a step that
\* deletes an output leaves or makes the answer "regenerate".
C4_BothOutputsFlip ==
    [][\A m \in ModNames :
         /\ (Regenerate(m) /\ RaisesOutput(m)) =>
               (~Regenerate(m)' <=> (Past(icl'[m], m) /\ Past(dcl'[m], m)))
         /\ DeletesOutput(m) => Regenerate(m)']_vars

\* The outputs of a regenerated module were touched one after the other,
\* both past the source, and the check says "skip".
C4_Witness ==
    /\ pc = "idle"
    /\ lcl[DefaultMain].exists
    /\ hist[DefaultMain] = "touched"
    /\ Past(icl[DefaultMain], DefaultMain)
    /\ Past(dcl[DefaultMain], DefaultMain)
    /\ icl[DefaultMain].mtime # dcl[DefaultMain].mtime
    /\ ~Regenerate(DefaultMain)

\* The calls Unlit makes, in the order of the project file.
Order(m) == <<m.Main>> \o m.Modules \o m.OtherModules

\* C5: a call of unlitHelper for a module without a literate file returns at
\* once, with every file as it was and no error, and Unlit then makes its next
\* call, or returns when the call was its last.
C5_MissingSourceSkipped ==
    [][/\ (pc = "stat" /\ ~lcl[mod].exists /\ pc' # pc) =>
             (pc' = "done" /\ result' = "nolit" /\ files' = files)
       /\ (pc = "done" /\ result = "nolit" /\ pc' # pc) =>
             /\ files' = files
             /\ IF Len(trace) < Len(Order(manifest))
                THEN pc' = "stat" /\ mod' = Order(manifest)[Len(trace) + 1]
                ELSE pc' = "idle"]_vars

\* The call for a module with outputs and no literate file has returned, and
\* another call is to come.
C5_Witness ==
    /\ pc = "done"
    /\ result = "nolit"
    /\ icl[mod].exists
    /\ dcl[mod].exists
    /\ Len(trace) < Len(Order(manifest))

\* The check of a module returns "up to date" and leaves every file alone.
SkipsUnchanged ==
    pc' = "done" /\ result' = "uptodate" /\ files' = files

\* C9 as claimed: once a module was regenerated, and its source has not
\* changed since, every check of it returns "up to date" with no file changed.
C9_SkippedOnceRegenerated ==
    [][(pc = "stat" /\ hist[mod] # "none" /\ pc' # pc) => SkipsUnchanged]_vars

\* C9 as amended: once a regeneration has left both outputs with times
\* strictly later than the source's, and neither the source nor an output has
\* changed since, every check of the module returns "up to date" with no file
\* changed.
C9_SkippedWhileFresh ==
    [][(pc = "stat" /\ hist[mod] = "late" /\ pc' # pc) => SkipsUnchanged]_vars

\* A module listed more than once was regenerated and a later call of the
\* same run has found it up to date.
C9_Witness ==
    /\ pc = "done"
    /\ result = "uptodate"
    /\ hist[mod] = "late"
    /\ Len(trace) >= 2
    /\ prev[mod].has
    /\ icl[mod].data = prev[mod].i

============================================================================
